---- MODULE Spec2Model ----
(***************************************************************************)
(* wedesoft/recipekeeper: the ingredient-line parser (parse_ingredient),   *)
(* the HTML extraction loop (parse_recipe) and the Meal-Master renderer    *)
(* (generate_mealmaster) of main.py.                                       *)
(*                                                                         *)
(* A text is a sequence of characters, each character a one-character      *)
(* string.  The regular expression of parse_ingredient is modelled by the  *)
(* order in which a backtracking matcher tries its alternatives: every     *)
(* quantifier and alternation yields its candidate end positions in the    *)
(* engine's order of preference and the first candidate for which the rest *)
(* of the pattern matches wins.                                            *)
(***************************************************************************)
EXTENDS Integers, Sequences, FiniteSets, TLC

VARIABLES pc, line, match, result, recipe_element, recipe, mm_recipe

vars == <<pc, line, match, result, recipe_element, recipe, mm_recipe>>

-----------------------------------------------------------------------------
(* Characters and character classes                                        *)

\* U+017F LATIN SMALL LETTER LONG S, written with ASCII characters only.
LongS == "\\u017f"

LowerCase == <<"a", "b", "c", "d", "e", "f", "g", "h", "i", "j", "k", "l", "m",
               "n", "o", "p", "q", "r", "s", "t", "u", "v", "w", "x", "y", "z">>

UpperCase == <<"A", "B", "C", "D", "E", "F", "G", "H", "I", "J", "K", "L", "M",
               "N", "O", "P", "Q", "R", "S", "T", "U", "V", "W", "X", "Y", "Z">>

Digits == {"0", "1", "2", "3", "4", "5", "6", "7", "8", "9"}

\* Characters both \s and str.strip() treat as whitespace (the vertical tab and
\* the Unicode spaces, which TLA+ strings cannot hold, are treated alike).
Whitespace == {" ", "\t", "\n", "\r", "\f"}

\* A character class of the pattern: the characters it names, and whether it
\* stands for them or for all others.
DigitClass == [chars |-> Digits, negated |-> FALSE]       \* \d

SpaceClass == [chars |-> Whitespace, negated |-> FALSE]   \* \s

\* . (without re.DOTALL): any character except the line feed
DotClass == [chars |-> {"\n"}, negated |-> TRUE]

InClass(c, cls) == (c \in cls.chars) # cls.negated

IsSpace(c) == InClass(c, SpaceClass)

\* str.lower() on one character.  The long s is a lowercase letter already.
Lower(c) ==
    IF \E i \in 1..Len(UpperCase) : UpperCase[i] = c
    THEN LowerCase[CHOOSE i \in 1..Len(UpperCase) : UpperCase[i] = c]
    ELSE c

\* re.IGNORECASE on a str pattern: a pattern letter matches its two cases and
\* the characters the engine lists as case-equivalent; "s" also matches the
\* long s.
Fold(c) == IF c = LongS THEN "s" ELSE Lower(c)

\* str.lower()
lower(s) == [i \in 1..Len(s) |-> Lower(s[i])]

None == <<"None">>

\* Python's `x or ""` for x a str or None
OrEmpty(x) == IF x = None \/ x = <<>> THEN <<>> ELSE x

RECURSIVE LStrip(_)
LStrip(s) == IF s # <<>> /\ IsSpace(Head(s)) THEN LStrip(Tail(s)) ELSE s

RECURSIVE RStrip(_)
RStrip(s) ==
    IF s # <<>> /\ IsSpace(s[Len(s)]) THEN RStrip(SubSeq(s, 1, Len(s) - 1)) ELSE s

\* str.strip()
strip(s) == RStrip(LStrip(s))

-----------------------------------------------------------------------------
(* parse_ingredient                                                        *)

\* The alias table in its insertion order, which is the order of the
\* alternatives of the unit group.
mealmaster_units ==
    << <<<<"c">>, <<"c">>>>,
       <<<<"c", "u", "p">>, <<"c">>>>,
       <<<<"c", "u", "p", "s">>, <<"c">>>>,
       <<<<"t", "s">>, <<"t", "s">>>>,
       <<<<"t", "e", "a", "s", "p", "o", "o", "n">>, <<"t", "s">>>>,
       <<<<"t", "e", "a", "s", "p", "o", "o", "n", "s">>, <<"t", "s">>>>,
       <<<<"t", "b">>, <<"t", "b">>>>,
       <<<<"t", "a", "b", "l", "e", "s", "p", "o", "o", "n">>, <<"t", "b">>>>,
       <<<<"t", "a", "b", "l", "e", "s", "p", "o", "o", "n", "s">>, <<"t", "b">>>>,
       <<<<"o", "z">>, <<"o", "z">>>>,
       <<<<"o", "u", "n", "c", "e">>, <<"o", "z">>>>,
       <<<<"o", "u", "n", "c", "e", "s">>, <<"o", "z">>>>,
       <<<<"l", "b">>, <<"l", "b">>>>,
       <<<<"p", "o", "u", "n", "d">>, <<"l", "b">>>>,
       <<<<"p", "o", "u", "n", "d", "s">>, <<"l", "b">>>>,
       <<<<"g">>, <<"g">>>>,
       <<<<"g", "r", "a", "m">>, <<"g">>>>,
       <<<<"g", "r", "a", "m", "s">>, <<"g">>>>,
       <<<<"k", "g">>, <<"k", "g">>>>,
       <<<<"k", "i", "l", "o", "g", "r", "a", "m">>, <<"k", "g">>>>,
       <<<<"k", "i", "l", "o", "g", "r", "a", "m", "s">>, <<"k", "g">>>>,
       <<<<"m", "l">>, <<"m", "l">>>>,
       <<<<"m", "i", "l", "l", "i", "l", "i", "t", "e", "r">>, <<"m", "l">>>>,
       <<<<"m", "i", "l", "l", "i", "l", "i", "t", "e", "r", "s">>, <<"m", "l">>>>,
       <<<<"l">>, <<"l">>>>,
       <<<<"l", "i", "t", "e", "r">>, <<"l">>>>,
       <<<<"l", "i", "t", "e", "r", "s">>, <<"l">>>>,
       <<<<"p", "n">>, <<"p", "n">>>>,
       <<<<"p", "i", "n", "c", "h">>, <<"p", "n">>>>,
       <<<<"d", "s">>, <<"d", "s">>>>,
       <<<<"d", "a", "s", "h">>, <<"d", "s">>>>,
       <<<<"s", "l">>, <<"s", "l">>>>,
       <<<<"s", "l", "i", "c", "e">>, <<"s", "l">>>> >>

\* mealmaster_units.keys()
Keys == {mealmaster_units[k][1] : k \in 1..Len(mealmaster_units)}

\* mealmaster_units[k]
Canonical(k) ==
    mealmaster_units[CHOOSE i \in 1..Len(mealmaster_units) :
                         mealmaster_units[i][1] = k][2]

\* mealmaster_units.get(unit, unit)
GetUnit(unit) == IF unit \in Keys THEN Canonical(unit) ELSE unit

\* The concatenation of a sequence of sequences, in order.
RECURSIVE Flatten(_)
Flatten(ss) ==
    IF ss = <<>> THEN <<>>
    ELSE IF Len(ss) = 1 THEN ss[1]
    ELSE Flatten(SubSeq(ss, 1, Len(ss) \div 2))
         \o Flatten(SubSeq(ss, Len(ss) \div 2 + 1, Len(ss)))

\* The end of the longest run of characters of class cls that starts after
\* position i (a position is the number of characters consumed).
RunEnd(s, i, cls) ==
    CHOOSE j \in i..Len(s) :
        /\ \A k \in (i + 1)..j : InClass(s[k], cls)
        /\ j = Len(s) \/ ~InClass(s[j + 1], cls)

\* A greedy quantifier (X*, X+) over a character class: the ends it tries,
\* longest first, with at least min characters.
Greedy(s, i, cls, min) ==
    [k \in 1..(RunEnd(s, i, cls) - (i + min) + 1) |-> RunEnd(s, i, cls) - k + 1]

\* A lazy quantifier (X+?) over a character class: shortest first.
Lazy(s, i, cls, min) ==
    [k \in 1..(RunEnd(s, i, cls) - (i + min) + 1) |-> i + min + k - 1]

\* A literal character at position i.
Lit(s, i, ch) == IF i < Len(s) /\ s[i + 1] = ch THEN <<i + 1>> ELSE <<>>

\* Sequencing: a greedy quantifier after each of the ends ps of what precedes
\* it, in the order the matcher backtracks (the later part varies first).
GreedyFrom(s, ps, cls, min) ==
    Flatten([k \in 1..Len(ps) |-> Greedy(s, ps[k], cls, min)])

\* Sequencing: a literal character after each of the ends ps.
LitFrom(s, ps, ch) == Flatten([k \in 1..Len(ps) |-> Lit(s, ps[k], ch)])

\* \d+\s+\d+/\d+
Mixed(s, i) ==
    GreedyFrom(s,
        LitFrom(s,
            GreedyFrom(s,
                GreedyFrom(s, Greedy(s, i, DigitClass, 1), SpaceClass, 1),
                DigitClass, 1),
            "/"),
        DigitClass, 1)

\* \d+/\d+
Fraction(s, i) ==
    GreedyFrom(s, LitFrom(s, Greedy(s, i, DigitClass, 1), "/"), DigitClass, 1)

\* \d+(?:\.\d+)? : after each end of \d+, first with the optional part, then
\* without it.
Decimal(s, i) ==
    Flatten([k \in 1..Len(Greedy(s, i, DigitClass, 1)) |->
                GreedyFrom(s, Lit(s, Greedy(s, i, DigitClass, 1)[k], "."), DigitClass, 1)
                \o <<Greedy(s, i, DigitClass, 1)[k]>>])

\* The amount group with its alternatives in the opposite order, under which
\* the leading integer of a mixed number wins (C4 fails).
AmountEndsDecimalFirst(s, i) ==
    Decimal(s, i) \o Fraction(s, i) \o Mixed(s, i) \o <<i>>

\* (?P<amount>\d+\s+\d+/\d+|\d+/\d+|\d+(?:\.\d+)?)? : the alternatives in
\* their order, then the group left out (end = start).
AmountEnds(s, i) == Mixed(s, i) \o Fraction(s, i) \o Decimal(s, i) \o <<i>>

\* One alias, matched as a literal under re.IGNORECASE.
MatchesAlias(s, i, key) ==
    /\ i + Len(key) <= Len(s)
    /\ \A k \in 1..Len(key) : Fold(s[i + k]) = key[k]

\* (?P<unit>c|cup|cups|...)? : the aliases in table order, then the group
\* left out.
UnitEnds(s, i) ==
    Flatten([k \in 1..Len(mealmaster_units) |->
                IF MatchesAlias(s, i, mealmaster_units[k][1])
                THEN <<i + Len(mealmaster_units[k][1])>>
                ELSE <<>>]) \o <<i>>

\* The pattern without its final $, under which the lazy ingredient group
\* stops after one character (C10 fails).
AtEndNotRequired(s, p) == TRUE

\* $ (without re.MULTILINE): the end of the text, or just before a line feed
\* that ends the text.
AtEnd(s, p) == p = Len(s) \/ (p = Len(s) - 1 /\ s[Len(s)] = "\n")

\* match.span(group) of a group that took no part in the match
NoGroup == [start |-> -1, end |-> -1]

\* An optional group that cannot match the empty text took part in the match
\* exactly when it consumed something.
Group(i, j) == IF i = j THEN NoGroup ELSE [start |-> i, end |-> j]

NoMatch ==
    [matched |-> FALSE, amount |-> NoGroup, unit |-> NoGroup, ingredient |-> NoGroup]

\* A path is the sequence of positions the matcher has reached after each part
\* of the pattern.  Extend puts the next part after every path: ends[p] are
\* the ends that part tries from position p, in its order of preference.  The
\* paths stay in the order in which the backtracking matcher tries them.
Extend(paths, ends) ==
    Flatten([k \in 1..Len(paths) |->
                [j \in 1..Len(ends[paths[k][Len(paths[k])]]) |->
                    Append(paths[k], ends[paths[k][Len(paths[k])]][j])]])

\* The paths through ^\s* amount? \s* unit? \s* ingredient \s*, in the
\* matcher's order: <<0, p0, a, p1, u, p2, e, p3>>.
Paths(s) ==
    LET spaces     == [p \in 0..Len(s) |-> Greedy(s, p, SpaceClass, 0)]
        amount     == [p \in 0..Len(s) |-> AmountEnds(s, p)]
        unit       == [p \in 0..Len(s) |-> UnitEnds(s, p)]
        ingredient == [p \in 0..Len(s) |-> Lazy(s, p, DotClass, 1)]
    IN  Extend(Extend(Extend(Extend(Extend(Extend(Extend(
            << <<0>> >>, spaces), amount), spaces), unit), spaces), ingredient), spaces)

\* The match object of a path that reached the end.
MatchOf(path) ==
    [matched    |-> TRUE,
     amount     |-> Group(path[2], path[3]),
     unit       |-> Group(path[4], path[5]),
     ingredient |-> [start |-> path[6], end |-> path[7]]]

\* regex.match(line) for the pattern of parse_ingredient: the first path, in
\* the matcher's order, that ends where $ matches.
RegexMatch(s) ==
    LET paths == Paths(s)
        ok    == {k \in 1..Len(paths) : AtEnd(s, paths[k][Len(paths[k])])}
    IN  IF ok = {} THEN NoMatch
        ELSE MatchOf(paths[CHOOSE k \in ok : \A j \in ok : k <= j])

\* match.group(name)
GroupText(s, g) == IF g = NoGroup THEN None ELSE SubSeq(s, g.start + 1, g.end)

\* The unit after `if unit: unit = unit.lower(); unit = ....get(unit, unit)`
ConvertUnit(unit) == IF unit = None \/ unit = <<>> THEN unit ELSE GetUnit(lower(unit))

\* The result without the `or ""` defaults, under which a group that took no
\* part in the match is returned as None (C5 fails).
ParseResultNoDefault(s, m) ==
    IF m.matched
    THEN [amount     |-> GroupText(s, m.amount),
          unit       |-> ConvertUnit(GroupText(s, m.unit)),
          ingredient |-> strip(GroupText(s, m.ingredient))]
    ELSE [amount |-> <<>>, unit |-> <<>>, ingredient |-> strip(s)]

\* The dictionary parse_ingredient returns, given the match object.
ParseResult(s, m) ==
    IF m.matched
    THEN [amount     |-> OrEmpty(GroupText(s, m.amount)),
          unit       |-> OrEmpty(ConvertUnit(GroupText(s, m.unit))),
          ingredient |-> strip(GroupText(s, m.ingredient))]
    ELSE [amount |-> <<>>, unit |-> <<>>, ingredient |-> strip(s)]

parse_ingredient(s) == ParseResult(s, RegexMatch(s))

-----------------------------------------------------------------------------
(* Inputs                                                                  *)

\* The longest unstructured line.
MaxLen == 4

\* A digit, the two number separators, the two kinds of whitespace, a letter
\* that is an alias and a letter that is not.
Alphabet == {"2", "/", ".", " ", "\n", "c", "x"}

\* Every text over Alphabet of at most MaxLen characters.
ShortLines == UNION {[1..n -> Alphabet] : n \in 0..MaxLen}

\* No amount, an integer, a fraction, a mixed number and a decimal.
Amounts ==
    {<<>>, <<"2">>, <<"1", "/", "2">>, <<"2", " ", "1", "/", "2">>, <<"2", ".", "5">>}

\* Plain words that are no alias.
PlainWords == {<<"l", "a", "r", "g", "e">>, <<"r", "i", "p", "e">>}

\* Aliases written in another case, and "ts" written with the long s.
CasedWords == {<<"C", "U", "P", "S">>, <<"T", "b">>, <<"t", LongS>>}

\* The word after the amount: none, every alias, and words that are no alias.
Words == {<<>>} \cup Keys \cup PlainWords \cup CasedWords

Names ==
    {<<"f", "l", "o", "u", "r">>, <<"e", "g", "g", "s">>,
     <<"g", "a", "r", "l", "i", "c">>,
     <<"s", "a", "l", "t", " ", "t", "o", " ", "t", "a", "s", "t", "e">>}

\* " ".join of the parts that are not empty
RECURSIVE JoinWords(_)
JoinWords(parts) ==
    IF parts = <<>> THEN <<>>
    ELSE LET rest == JoinWords(Tail(parts))
         IN  IF Head(parts) = <<>> THEN rest
             ELSE IF rest = <<>> THEN Head(parts)
             ELSE Head(parts) \o <<" ">> \o rest

\* Lines as recipes write them: "<amount> <word> <name>", each part optional.
RecipeLines ==
    {JoinWords(<<a, w, n>>) : a \in Amounts, w \in Words, n \in Names \cup {<<>>}}

Lines == ShortLines \cup RecipeLines

NoResult == [amount |-> <<>>, unit |-> <<>>, ingredient |-> <<>>]

NoElement == [title |-> <<>>, course |-> None, categories |-> <<>>, yield |-> None,
           ingredients |-> <<>>, directions |-> <<>>]

NoRecipe == [title |-> <<>>, course |-> <<>>, categories |-> <<>>,
             serving_size |-> <<>>, ingredients |-> <<>>, directions |-> <<>>]

-----------------------------------------------------------------------------
(* parse_ingredient called on one line                                     *)

Init ==
    /\ pc = "call"
    /\ line \in Lines
    /\ match = NoMatch
    /\ result = NoResult
    /\ recipe_element = NoElement
    /\ recipe = NoRecipe
    /\ mm_recipe = <<>>

\* regex.match(line) succeeded: the `if match:` branch.
ParseMatched ==
    /\ pc = "call"
    /\ RegexMatch(line).matched
    /\ match' = RegexMatch(line)
    /\ result' = ParseResult(line, match')
    /\ pc' = "return"
    /\ UNCHANGED <<line, recipe_element, recipe, mm_recipe>>

\* regex.match(line) is None: the `else:` branch.
ParseFallback ==
    /\ pc = "call"
    /\ ~RegexMatch(line).matched
    /\ match' = NoMatch
    /\ result' = ParseResult(line, match')
    /\ pc' = "return"
    /\ UNCHANGED <<line, recipe_element, recipe, mm_recipe>>

Next == ParseMatched \/ ParseFallback

Spec == Init /\ [][Next]_vars

-----------------------------------------------------------------------------
(* parse_recipe                                                            *)

NotAvailable == <<"N", "/", "A">>

\* element.get_text(strip=True) of an element that holds one text node
GetText(text) == strip(text)

\* [f(x) for x in xs if keep(x)], for the three comprehensions of parse_recipe
RECURSIVE ParseParagraphs(_)
ParseParagraphs(ps) ==
    IF ps = <<>> THEN <<>>
    ELSE IF GetText(Head(ps)) # <<>>
         THEN <<parse_ingredient(GetText(Head(ps)))>> \o ParseParagraphs(Tail(ps))
         ELSE ParseParagraphs(Tail(ps))

RECURSIVE TextParagraphs(_)
TextParagraphs(ps) ==
    IF ps = <<>> THEN <<>>
    ELSE IF GetText(Head(ps)) # <<>>
         THEN <<GetText(Head(ps))>> \o TextParagraphs(Tail(ps))
         ELSE TextParagraphs(Tail(ps))

RECURSIVE NonEmptyContents(_)
NonEmptyContents(metas) ==
    IF metas = <<>> THEN <<>>
    ELSE IF Head(metas) # <<>>
         THEN <<Head(metas)>> \o NonEmptyContents(Tail(metas))
         ELSE NonEmptyContents(Tail(metas))

\* The dictionary parse_recipe appends for one recipe-details element.  An
\* element the document lacks is None.
RecipeRecord(element) ==
    [title        |-> GetText(element.title),
     course       |-> IF element.course = None THEN NotAvailable
                      ELSE GetText(element.course),
     categories   |-> NonEmptyContents(element.categories),
     serving_size |-> IF element.yield = None THEN NotAvailable
                      ELSE GetText(element.yield),
     ingredients  |-> ParseParagraphs(element.ingredients),
     directions   |-> TextParagraphs(element.directions)]

-----------------------------------------------------------------------------
(* generate_mealmaster                                                     *)

AmountWidth == 7

UnitWidth == 2

Banner ==
    <<"M", "M", "M", "M", "M", "-", "-", "-", "-", "-", "-", "-", "-", "-", "-",
      "-", "-", "-", "-", "-", "-", "M", "e", "a", "l", "-", "M", "a", "s", "t",
      "e", "r", " ", "r", "e", "c", "i", "p", "e", " ", "e", "x", "p", "o", "r",
      "t", "e", "d", " ", "b", "y", " ", "A", "n", "y", "M", "e", "a", "l", "-",
      "-", "-", "-", "-", "-", "-", "-", "-", "-", "-", "-", "-", "-", "-", "-",
      "-">>

TitleLabel == <<" ", " ", " ", " ", " ", "T", "i", "t", "l", "e", ":", " ">>

CategoriesLabel == <<"C", "a", "t", "e", "g", "o", "r", "i", "e", "s", ":", " ">>

ServingsLabel == <<" ", " ", "S", "e", "r", "v", "i", "n", "g", "s", ":", " ">>

ServingSuffix == <<" ", "s", "e", "r", "v", "i", "n", "g">>

Sentinel == <<"M", "M", "M", "M", "M">>

Untitled ==
    <<"U", "n", "t", "i", "t", "l", "e", "d", " ", "R", "e", "c", "i", "p", "e">>

Spaces(n) == [k \in 1..n |-> " "]

\* Padding on the wrong side of the amount (C8 fails).
rjustPadsRight(s, width) ==
    IF Len(s) >= width THEN s ELSE s \o Spaces(width - Len(s))

\* str.rjust(width)
rjust(s, width) == IF Len(s) >= width THEN s ELSE Spaces(width - Len(s)) \o s

\* str.ljust(width)
ljust(s, width) == IF Len(s) >= width THEN s ELSE s \o Spaces(width - Len(s))

\* dict.get(key, default)
Get(dict, key, default) == IF key \in DOMAIN dict THEN dict[key] ELSE default

\* ", ".join(parts)
RECURSIVE JoinComma(_)
JoinComma(parts) ==
    IF parts = <<>> THEN <<>>
    ELSE IF Len(parts) = 1 THEN Head(parts)
    ELSE Head(parts) \o <<",", " ">> \o JoinComma(Tail(parts))

\* The header f-string.
Header(title, categories, yield_amount) ==
    <<"\n">> \o Banner \o <<"\n">>
    \o TitleLabel \o title \o <<"\n">>
    \o CategoriesLabel \o JoinComma(categories) \o <<"\n">>
    \o ServingsLabel \o (IF yield_amount = <<>> THEN <<"1">> ELSE yield_amount)
    \o ServingSuffix \o <<"\n">>
    \o <<"\n">>

\* f"{amount} {unit} {ingredient_text}\n" of one ingredient
IngredientLine(ingredient) ==
    rjust(Get(ingredient, "amount", <<>>), AmountWidth) \o <<" ">>
    \o ljust(Get(ingredient, "unit", <<>>), UnitWidth) \o <<" ">>
    \o Get(ingredient, "ingredient", <<>>) \o <<"\n">>

RECURSIVE IngredientLines(_)
IngredientLines(ingredients) ==
    IF ingredients = <<>> THEN <<>>
    ELSE IngredientLine(Head(ingredients)) \o IngredientLines(Tail(ingredients))

RECURSIVE DirectionParagraphs(_)
DirectionParagraphs(directions) ==
    IF directions = <<>> THEN <<>>
    ELSE Head(directions) \o <<"\n", "\n">> \o DirectionParagraphs(Tail(directions))

generate_mealmaster(r) ==
    strip(Header(Get(r, "title", Untitled), Get(r, "categories", <<>>),
                 Get(r, "yield_amount", <<>>))
          \o IngredientLines(Get(r, "ingredients", <<>>))
          \o <<"\n">>
          \o DirectionParagraphs(Get(r, "directions", <<>>))
          \o Sentinel \o <<"\n">>)

-----------------------------------------------------------------------------
(* The conversion of one recipe-details element: parse_recipe, then        *)
(* print(generate_mealmaster(recipe))                                      *)

\* The most <p> elements in the ingredients div.
MaxIngredients == 2

Paragraphs ==
    {<<"2", " ", "e", "g", "g", "s">>,
     <<"1", " ", "t", "b", " ", "o", "i", "l">>,
     <<"1", "2", "3", "4", " ", "5", "/", "6", "7", " ", "k", "g", " ", "r", "i", "c", "e">>,
     <<" ", "s", "a", "l", "t">>,
     <<" ">>}

Elements ==
    [title       : {<<"P", "i", "e">>},
     course      : {None, <<"M", "a", "i", "n">>},
     categories  : {<<>>, <<<<"D", "e", "s", "s", "e", "r", "t">>>>,
                    <<<<"D", "e", "s", "s", "e", "r", "t">>, <<>>,
                      <<"C", "o", "o", "k", "i", "e", "s">>>>},
     yield       : {None, <<>>, <<" ", "6", " ">>},
     ingredients : UNION {[1..n -> Paragraphs] : n \in 0..MaxIngredients},
     directions  : {<<>>, <<<<"M", "i", "x", " ", "w", "e", "l", "l", ".">>, <<" ">>,
                             <<"B", "a", "k", "e", ".">>>>}]

InitRecipe ==
    /\ pc = "parse"
    /\ recipe_element \in Elements
    /\ line = <<>>
    /\ match = NoMatch
    /\ result = NoResult
    /\ recipe = NoRecipe
    /\ mm_recipe = <<>>

\* One iteration of parse_recipe's loop over the recipe-details elements.
ParseRecipe ==
    /\ pc = "parse"
    /\ recipe' = RecipeRecord(recipe_element)
    /\ pc' = "generate"
    /\ UNCHANGED <<line, match, result, recipe_element, mm_recipe>>

\* One iteration of the loop of the main block.
GenerateMealmaster ==
    /\ pc = "generate"
    /\ mm_recipe' = generate_mealmaster(recipe)
    /\ pc' = "printed"
    /\ UNCHANGED <<line, match, result, recipe_element, recipe>>

NextRecipe == ParseRecipe \/ GenerateMealmaster

SpecRecipe == InitRecipe /\ [][NextRecipe]_vars

-----------------------------------------------------------------------------
(* Properties of parse_ingredient (checked under Spec)                     *)

Returned == pc = "return"

SingleLine(s) == \A i \in 1..Len(s) : s[i] # "\n"

Blank(s) == \A i \in 1..Len(s) : s[i] \in Whitespace

RECURSIVE SkipDigits(_, _)
SkipDigits(s, i) ==
    IF i < Len(s) /\ s[i + 1] \in Digits THEN SkipDigits(s, i + 1) ELSE i

RECURSIVE SkipBlanks(_, _)
SkipBlanks(s, i) ==
    IF i < Len(s) /\ s[i + 1] \in Whitespace THEN SkipBlanks(s, i + 1) ELSE i

RECURSIVE SkipWord(_, _)
SkipWord(s, i) ==
    IF i < Len(s) /\ s[i + 1] \notin Whitespace THEN SkipWord(s, i + 1) ELSE i

\* The end of the number that starts at position i, read left to right as a
\* mixed number if there is one, else a fraction, else a decimal or integer;
\* i when no digit starts there.
NumberEnd(s, i) ==
    LET a == SkipDigits(s, i)
        b == SkipBlanks(s, a)
        c == SkipDigits(s, b)
    IN  IF a = i THEN i
        ELSE IF b > a /\ c > b /\ c < Len(s) /\ s[c + 1] = "/"
                /\ SkipDigits(s, c + 1) > c + 1
        THEN SkipDigits(s, c + 1)
        ELSE IF a < Len(s) /\ s[a + 1] \in {"/", "."} /\ SkipDigits(s, a + 1) > a + 1
        THEN SkipDigits(s, a + 1)
        ELSE a

\* The number the line begins with, after optional whitespace; <<>> if none.
LeadingNumber(s) == SubSeq(s, SkipBlanks(s, 0) + 1, NumberEnd(s, SkipBlanks(s, 0)))

\* The first word of the line.
FirstWord(s) == SubSeq(s, SkipBlanks(s, 0) + 1, SkipWord(s, SkipBlanks(s, 0)))

IsProperPrefix(p, s) == Len(p) < Len(s) /\ p = SubSeq(s, 1, Len(p))

RECURSIVE RemoveWhitespace(_)
RemoveWhitespace(s) ==
    IF s = <<>> THEN <<>>
    ELSE IF Head(s) \in Whitespace THEN RemoveWhitespace(Tail(s))
    ELSE <<Head(s)>> \o RemoveWhitespace(Tail(s))

\* C1: a line "<amount> <unit> <name>", the unit any key of the alias table,
\* parses to that amount, the table's canonical form of the unit and exactly
\* that name.
C1_UnitLineRecovered ==
    Returned =>
        \A a \in Amounts \ {<<>>}, k \in Keys, n \in Names :
            line = JoinWords(<<a, k, n>>) =>
                result = [amount |-> a, unit |-> Canonical(k), ingredient |-> n]

\* C2: a line that is only a name (no leading digit, its first word not an
\* alias) parses to an empty amount, an empty unit and the trimmed line.
C2_NameOnlyLine ==
    (/\ Returned
     /\ SingleLine(line)
     /\ ~Blank(line)
     /\ Head(strip(line)) \notin Digits
     /\ lower(FirstWord(line)) \notin Keys)
    => result = [amount |-> <<>>, unit |-> <<>>, ingredient |-> strip(line)]

\* C3: in a line "<amount> <word> <rest>" whose word is not a key of the alias
\* table the unit is empty and the whole word is part of the ingredient.
C3_UnknownWordFolded ==
    Returned =>
        \A a \in Amounts \ {<<>>}, w \in PlainWords, n \in Names :
            (w \notin Keys /\ line = JoinWords(<<a, w, n>>)) =>
                result = [amount |-> a, unit |-> <<>>,
                          ingredient |-> JoinWords(<<w, n>>)]

\* C4 as stated: whenever the line begins with a number the amount is that
\* whole number (mixed number, else fraction, else decimal or integer), also
\* on a line that holds nothing but the number.
C4_AmountIsLeadingNumber ==
    (Returned /\ SingleLine(line) /\ LeadingNumber(line) # <<>>)
    => result.amount = LeadingNumber(line)

\* C4 amended: on a line without line break that begins with a number and
\* goes on after it (by at least one character, whitespace included) the
\* amount is that whole number, the mixed number preferred to the fraction and
\* the fraction to the decimal or integer; on a line that ends with its number
\* the amount is a proper prefix of the number (possibly empty).
C4_AmountPreference ==
    (Returned /\ SingleLine(line) /\ LeadingNumber(line) # <<>>)
    => IF NumberEnd(line, SkipBlanks(line, 0)) < Len(line)
       THEN result.amount = LeadingNumber(line)
       ELSE IsProperPrefix(result.amount, LeadingNumber(line))

\* C4 witness: a mixed number followed by a unit and a name was parsed.
C4_Witness ==
    /\ Returned
    /\ line = JoinWords(<<<<"2", " ", "1", "/", "2">>, <<"c", "u", "p", "s">>,
                          <<"f", "l", "o", "u", "r">>>>)
    /\ result.amount = <<"2", " ", "1", "/", "2">>

\* C5: parse_ingredient returns three texts for every line; without a match
\* they are "", "" and the trimmed line, and for a blank line all three are
\* empty.
C5_Total ==
    Returned =>
        /\ DOMAIN result = {"amount", "unit", "ingredient"}
        /\ \A f \in DOMAIN result : result[f] # None
        /\ ~match.matched =>
               result = [amount |-> <<>>, unit |-> <<>>, ingredient |-> strip(line)]
        /\ Blank(line) => result = NoResult

\* C5 witness: the pattern did not match a line that is not blank.
C5_Witness == Returned /\ ~match.matched /\ ~Blank(line) /\ result.ingredient # <<>>

\* C6: the ingredient of a line that is not blank is not empty.
C6_IngredientNotEmpty == (Returned /\ ~Blank(line)) => result.ingredient # <<>>

\* C7: every key's canonical form is a key that the table maps to itself, and
\* so the unit of every result is "" or a value the table maps to itself.
C7_UnitCanonical ==
    /\ \A k \in Keys : Canonical(k) \in Keys /\ Canonical(Canonical(k)) = Canonical(k)
    /\ Returned =>
           \/ result.unit = <<>>
           \/ result.unit \in Keys /\ Canonical(result.unit) = result.unit

\* The part of the line a group matched ("" for a group that took no part).
Matched(g) == OrEmpty(GroupText(line, g))

\* C10: on a single-line input the amount, the unit token and the ingredient
\* are consecutive substrings of the line that do not overlap, every character
\* that is not whitespace lies in exactly one of them, and the three without
\* whitespace are the line without whitespace.
C10_NoTextLost ==
    (Returned /\ SingleLine(line)) =>
        /\ RemoveWhitespace(result.amount \o Matched(match.unit) \o result.ingredient)
               = RemoveWhitespace(line)
        /\ match.matched =>
               /\ result.amount = Matched(match.amount)
               /\ result.ingredient = strip(Matched(match.ingredient))
               /\ match.amount # NoGroup =>
                      0 <= match.amount.start /\ match.amount.start < match.amount.end
               /\ match.unit # NoGroup =>
                      /\ match.amount.end <= match.unit.start
                      /\ match.unit.start < match.unit.end
               /\ match.amount.end <= match.ingredient.start
               /\ match.unit.end <= match.ingredient.start
               /\ match.ingredient.start < match.ingredient.end
               /\ match.ingredient.end <= Len(line)
               /\ \A p \in 1..Len(line) :
                      line[p] \notin Whitespace =>
                          Cardinality({g \in {match.amount, match.unit, match.ingredient} :
                                          g.start < p /\ p <= g.end}) = 1

\* C10 witness: a line from which all three groups took a part.
C10_Witness ==
    /\ Returned
    /\ SingleLine(line)
    /\ match.matched
    /\ match.amount # NoGroup
    /\ match.unit # NoGroup
    /\ Len(result.ingredient) > 1

-----------------------------------------------------------------------------
(* Properties of the conversion (checked under SpecRecipe)                 *)

Printed == pc = "printed"

\* str.split("\n")
RECURSIVE SplitLines(_)
SplitLines(s) ==
    IF \E i \in 1..Len(s) : s[i] = "\n"
    THEN LET i == CHOOSE j \in 1..Len(s) :
                      s[j] = "\n" /\ \A k \in 1..(j - 1) : s[k] # "\n"
         IN  <<SubSeq(s, 1, i - 1)>> \o SplitLines(SubSeq(s, i + 1, Len(s)))
    ELSE <<s>>

OutputLines == SplitLines(mm_recipe)

Max(a, b) == IF a >= b THEN a ELSE b

\* The line l shows the ingredient g: the amount ends at column 7 (or later,
\* if longer), after one space the unit starts and fills at least 2 columns,
\* after one more space the name runs to the end of the line.
ShowsIngredient(l, g) ==
    LET wa == Max(AmountWidth, Len(g.amount))
        wu == Max(UnitWidth, Len(g.unit))
    IN  /\ Len(l) = wa + 1 + wu + 1 + Len(g.ingredient)
        /\ \A j \in 1..(wa - Len(g.amount)) : l[j] = " "
        /\ SubSeq(l, wa - Len(g.amount) + 1, wa) = g.amount
        /\ l[wa + 1] = " "
        /\ SubSeq(l, wa + 2, wa + 1 + Len(g.unit)) = g.unit
        /\ \A j \in (wa + 2 + Len(g.unit))..(wa + 1 + wu) : l[j] = " "
        /\ l[wa + wu + 2] = " "
        /\ SubSeq(l, wa + wu + 3, Len(l)) = g.ingredient
        /\ (Len(g.amount) <= 7 /\ Len(g.unit) <= 2) =>
               SubSeq(l, 12, Len(l)) = g.ingredient

\* C8: the block of a record parse_recipe built from single-line paragraphs
\* has one line per ingredient of the record, in the record's order, after the
\* four header lines and a blank line and before the blank line that starts
\* the directions; each is the amount right-justified in 7 columns, a space,
\* the unit left-justified in 2 columns, a space, the name (which starts at
\* column 12 when amount and unit fit their columns).
C8_IngredientLines ==
    Printed =>
        LET n == Len(recipe.ingredients)
            d == Len(recipe.directions)
        IN  /\ Len(OutputLines) = 5 + n + 1 + 2 * d + 1
            /\ OutputLines[1] = Banner
            /\ OutputLines[5] = <<>>
            /\ \A k \in 1..n : ShowsIngredient(OutputLines[5 + k], recipe.ingredients[k])
            /\ OutputLines[5 + n + 1] = <<>>
            /\ \A j \in 1..d : OutputLines[5 + n + 2 * j] = recipe.directions[j]
            /\ OutputLines[Len(OutputLines)] = Sentinel

\* C8 witness: a block with two different ingredients, one of them with an
\* amount of more than 7 characters, followed by directions.
C8_Witness ==
    /\ Printed
    /\ Len(recipe.ingredients) = 2
    /\ Len(recipe.ingredients[1].amount) > AmountWidth
    /\ recipe.ingredients[2].amount # <<>>
    /\ recipe.ingredients[2].unit # <<>>
    /\ Len(recipe.ingredients[2].amount) < AmountWidth
    /\ recipe.directions # <<>>

\* C9: the Servings line of the block shows the yield parse_recipe extracted
\* from the document, and "1" only if the document gives no yield.
C9_ServingsShowsYield ==
    Printed =>
        OutputLines[4] =
            ServingsLabel
            \o (IF recipe_element.yield = None \/ GetText(recipe_element.yield) = <<>>
                THEN <<"1">> ELSE recipe.serving_size)
            \o ServingSuffix

====
